---------------------------- MODULE Spec2Model ----------------------------
(***************************************************************************)
(* Thread bootstrap of the shield runtime (src/entrypoint/thread_init.c).  *)
(*                                                                         *)
(* The kernel starts each thread at _start(thread_id, seed).  _start       *)
(* stores the seed in the global __stack_chk_guard, calls __libc_init(),   *)
(* __shield_rand_set_seed(seed) and main(), and hands main's result to     *)
(* __sys_exit().  Every function called by _start is built with the stack  *)
(* protector: its prologue copies __stack_chk_guard into its frame, its    *)
(* epilogue compares the copy with __stack_chk_guard and calls             *)
(* __stack_chk_fail() when they differ.  _start itself is built with       *)
(* no_stack_protector.                                                     *)
(*                                                                         *)
(* __stack_chk_guard is one global of the image: all the threads of the    *)
(* image share it.                                                         *)
(***************************************************************************)
EXTENDS Integers, Sequences, FiniteSets, TLC

(* ------------------------------ bounds -------------------------------- *)

\* Threads the kernel starts in the image.
NumThreads == 2

\* Seeds the kernel hands out are 0..MaxSeed (uint32_t values).
MaxSeed == 2

\* Thread identifiers the kernel hands out are 0..MaxThreadId.
MaxThreadId == 1

\* main returns a value of -MaxRet..MaxRet, or SSP_EXIT_CODE.
MaxRet == 1

(* ------------------------- program constants -------------------------- *)

\* Exit code reported by __stack_chk_fail ("ldr r0, =123UL" / __sys_exit(123)).
SSP_EXIT_CODE == 123

Threads == 1..NumThreads
Seeds == 0..MaxSeed
ThreadIds == 0..MaxThreadId
RetVals == (-MaxRet..MaxRet) \cup {SSP_EXIT_CODE}

\* Values a frame's canary slot can hold: a uint32_t, here any seed value.
CanaryVals == Seeds

\* task_ret before "task_ret = main()" has run (the local is not initialised
\* and is not read before that assignment).  task_ret is << >> until then
\* and <<v>> once it holds the int v.
Unset == << >>

\* The two builds of __stack_chk_fail: #ifdef __arm__ and its #else.
Archs == {"arm", "portable"}

VARIABLES
    arch,               \* which build of __stack_chk_fail the image holds
    thread_id,          \* [Threads -> ThreadIds], first argument of _start
    seed,               \* [Threads -> Seeds], second argument of _start
    __stack_chk_guard,  \* the global __stack_chk_guard
    pc,                 \* [Threads -> position of the thread in _start]
    canary,             \* [Threads -> canary slot of the live callee frame]
    smashed,            \* [Threads -> a callee of the thread overwrote its canary]
    task_ret,           \* [Threads -> the local task_ret of _start]
    calls,              \* [Threads -> sequence of the steps taken, with arguments]
    exits               \* [Threads -> sequence of EXIT syscalls the kernel received]

vars == <<arch, thread_id, seed, __stack_chk_guard, pc, canary, smashed,
          task_ret, calls, exits>>

(* ------------------------------ helpers ------------------------------- *)

\* One entry of a thread's log: a step of _start or a call, with its arguments.
Step(fn, args) == [fn |-> fn, args |-> args]

Log(t, fn, args) == calls' = [calls EXCEPT ![t] = Append(@, Step(fn, args))]

\* One EXIT syscall as the kernel receives it: the status, the function that
\* issued it and how ("svc" instruction or the __sys_exit wrapper).
Exit(status, from, via) == [status |-> status, from |-> from, via |-> via]

\* Mutant of InCallee: _start is built with the stack protector too, and its
\* own frame is checked before its exit call.
InCallee_with_start == {"InLibcInit", "InRandSetSeed", "InMain", "MainReturned"}

\* Positions at which a stack-protected callee of _start is executing.
InCallee == {"InLibcInit", "InRandSetSeed", "InMain"}

\* Mutant of EpilogueOk: the callee is built without the stack protector and
\* returns whatever its canary slot holds.
EpilogueOk_unchecked(t) == TRUE

\* Prologue of a stack-protected function: the guard is copied into the frame.
Prologue(t) == canary' = [canary EXCEPT ![t] = __stack_chk_guard]

\* Epilogue of a stack-protected function: the frame's copy is compared with
\* the guard as it is now.
EpilogueOk(t) == canary[t] = __stack_chk_guard

\* The frame is popped.
Pop(t) == canary' = [canary EXCEPT ![t] = 0]

(* ------------------------------ _start -------------------------------- *)

\* Mutant of GuardValue: the first argument is stored instead of the second.
GuardValue_thread_id(t) == thread_id[t]

\* The value _start stores in the guard: "__stack_chk_guard = seed".
GuardValue(t) == seed[t]

\* __stack_chk_guard = seed;
start_set_guard(t) ==
    /\ pc[t] = "Uninitialized"
    /\ __stack_chk_guard' = GuardValue(t)
    /\ pc' = [pc EXCEPT ![t] = "GuardSet"]
    /\ Log(t, "set_guard", <<GuardValue(t)>>)
    /\ UNCHANGED <<arch, thread_id, seed, canary, smashed, task_ret, exits>>

\* The arguments of the call "__libc_init()".
LibcInitArgs(t) == << >>

\* Mutant of start_call_libc_init: the runtime initializer zeroes the globals
\* of the image again, the guard among them.
start_call_libc_init_zeroes(t) ==
    /\ pc[t] = "GuardSet"
    /\ pc' = [pc EXCEPT ![t] = "InLibcInit"]
    /\ __stack_chk_guard' = 0
    /\ canary' = [canary EXCEPT ![t] = 0]
    /\ Log(t, "__libc_init", << >>)
    /\ UNCHANGED <<arch, thread_id, seed, smashed, task_ret, exits>>

\* __libc_init();  -- the call and the callee's prologue
start_call_libc_init(t) ==
    /\ pc[t] = "GuardSet"
    /\ pc' = [pc EXCEPT ![t] = "InLibcInit"]
    /\ Prologue(t)
    /\ Log(t, "__libc_init", LibcInitArgs(t))
    /\ UNCHANGED <<arch, thread_id, seed, __stack_chk_guard, smashed, task_ret, exits>>

\* __libc_init returns to _start (epilogue check passed).
libc_init_return(t) ==
    /\ pc[t] = "InLibcInit"
    /\ EpilogueOk(t)
    /\ pc' = [pc EXCEPT ![t] = "RuntimeReady"]
    /\ Pop(t)
    /\ UNCHANGED <<arch, thread_id, seed, __stack_chk_guard, smashed, task_ret,
                   calls, exits>>

\* Mutant of RandSeedArgs: the first argument of _start is passed on.
RandSeedArgs_thread_id(t) == <<thread_id[t]>>

\* The arguments of the call "__shield_rand_set_seed(seed)".
RandSeedArgs(t) == <<seed[t]>>

\* Mutant of start_call_rand_set_seed: the RNG is seeded before the runtime
\* initializer has run, which is then skipped.
start_call_rand_set_seed_early(t) ==
    /\ pc[t] = "GuardSet"
    /\ pc' = [pc EXCEPT ![t] = "InRandSetSeed"]
    /\ Prologue(t)
    /\ Log(t, "__shield_rand_set_seed", <<seed[t]>>)
    /\ UNCHANGED <<arch, thread_id, seed, __stack_chk_guard, smashed, task_ret, exits>>

\* __shield_rand_set_seed(seed);  -- the call and the callee's prologue
start_call_rand_set_seed(t) ==
    /\ pc[t] = "RuntimeReady"
    /\ pc' = [pc EXCEPT ![t] = "InRandSetSeed"]
    /\ Prologue(t)
    /\ Log(t, "__shield_rand_set_seed", RandSeedArgs(t))
    /\ UNCHANGED <<arch, thread_id, seed, __stack_chk_guard, smashed, task_ret, exits>>

\* __shield_rand_set_seed returns to _start (epilogue check passed).
rand_set_seed_return(t) ==
    /\ pc[t] = "InRandSetSeed"
    /\ EpilogueOk(t)
    /\ pc' = [pc EXCEPT ![t] = "RngSeeded"]
    /\ Pop(t)
    /\ UNCHANGED <<arch, thread_id, seed, __stack_chk_guard, smashed, task_ret,
                   calls, exits>>

\* The arguments of the call "main()".
MainArgs(t) == << >>

\* task_ret = main();  -- the call and the callee's prologue
start_call_main(t) ==
    /\ pc[t] = "RngSeeded"
    /\ pc' = [pc EXCEPT ![t] = "InMain"]
    /\ Prologue(t)
    /\ Log(t, "main", MainArgs(t))
    /\ UNCHANGED <<arch, thread_id, seed, __stack_chk_guard, smashed, task_ret, exits>>

\* Mutant of main_return: a non-zero result makes _start call main again.
main_return_retries(t) ==
    /\ pc[t] = "InMain"
    /\ EpilogueOk(t)
    /\ \E v \in RetVals :
          /\ task_ret' = [task_ret EXCEPT ![t] = <<v>>]
          /\ pc' = [pc EXCEPT ![t] = IF v = 0 THEN "MainReturned" ELSE "RngSeeded"]
    /\ Pop(t)
    /\ UNCHANGED <<arch, thread_id, seed, __stack_chk_guard, smashed, calls, exits>>

\* main returns v to _start (epilogue check passed), which stores it in task_ret.
main_return(t) ==
    /\ pc[t] = "InMain"
    /\ EpilogueOk(t)
    /\ \E v \in RetVals : task_ret' = [task_ret EXCEPT ![t] = <<v>>]
    /\ pc' = [pc EXCEPT ![t] = "MainReturned"]
    /\ Pop(t)
    /\ UNCHANGED <<arch, thread_id, seed, __stack_chk_guard, smashed, calls, exits>>

\* Mutant of ExitStatus: the status is cut to its low byte.
ExitStatus_low_byte(t) == task_ret[t][1] % 256

\* Mutant of start_sys_exit: __sys_exit comes back and _start returns to
\* whatever called it.
start_sys_exit_returns(t) ==
    /\ pc[t] = "MainReturned"
    /\ exits' = [exits EXCEPT ![t] = Append(@, Exit(task_ret[t][1], "_start", "__sys_exit"))]
    /\ pc' = [pc EXCEPT ![t] = "Returned"]
    /\ Log(t, "__sys_exit", task_ret[t])
    /\ UNCHANGED <<arch, thread_id, seed, __stack_chk_guard, canary, smashed, task_ret>>

\* The argument of the call "__sys_exit(task_ret)".
ExitStatus(t) == task_ret[t][1]

\* __sys_exit(task_ret);  -- the kernel ends the thread: nothing follows
\* (noreturn, __builtin_unreachable()).
start_sys_exit(t) ==
    /\ pc[t] = "MainReturned"
    /\ exits' = [exits EXCEPT ![t] = Append(@, Exit(ExitStatus(t), "_start", "__sys_exit"))]
    /\ pc' = [pc EXCEPT ![t] = "Exited"]
    /\ Log(t, "__sys_exit", <<ExitStatus(t)>>)
    /\ UNCHANGED <<arch, thread_id, seed, __stack_chk_guard, canary, smashed, task_ret>>

(* ------------------------- stack protector ---------------------------- *)

\* A callee of _start overruns a buffer of its frame: the canary slot gets
\* another value.
smash(t) ==
    /\ pc[t] \in InCallee
    /\ ~smashed[t]
    /\ \E v \in CanaryVals \ {canary[t]} : canary' = [canary EXCEPT ![t] = v]
    /\ smashed' = [smashed EXCEPT ![t] = TRUE]
    /\ UNCHANGED <<arch, thread_id, seed, __stack_chk_guard, pc, task_ret, calls, exits>>

\* The epilogue of a callee finds its canary different from the guard and
\* calls __stack_chk_fail() instead of returning.
epilogue_fail(t) ==
    /\ pc[t] \in InCallee
    /\ ~EpilogueOk(t)
    /\ pc' = [pc EXCEPT ![t] = "InStackChkFail"]
    /\ Pop(t)
    /\ Log(t, "__stack_chk_fail", << >>)
    /\ UNCHANGED <<arch, thread_id, seed, __stack_chk_guard, smashed, task_ret, exits>>

\* Mutant of FailStatus: the handler reports the guard it failed against
\* along with the SSP code.
FailStatus_with_guard == SSP_EXIT_CODE + __stack_chk_guard

\* Mutant of FailStatus: the status of abort() instead of the SSP code.
FailStatus_abort == SSP_EXIT_CODE + 11

\* The status __stack_chk_fail reports.
FailStatus == SSP_EXIT_CODE

\* Mutant of __stack_chk_fail_arm: the handler returns after the svc, the
\* callee returns to _start, and _start goes on to its exit call.
__stack_chk_fail_arm_returns(t) ==
    /\ pc[t] = "InStackChkFail"
    /\ arch = "arm"
    /\ exits' = [exits EXCEPT ![t] = Append(@, Exit(SSP_EXIT_CODE, "__stack_chk_fail", "svc"))]
    /\ pc' = [pc EXCEPT ![t] = "MainReturned"]
    /\ task_ret' = [task_ret EXCEPT ![t] = <<0>>]
    /\ UNCHANGED <<arch, thread_id, seed, __stack_chk_guard, canary, smashed, calls>>

\* The body of the __arm__ build: "ldr r0, =123UL; svc SYSCALL_EXIT".  The
\* kernel ends the thread ("never reached").
stack_chk_fail_svc(t) ==
    /\ pc[t] = "InStackChkFail"
    /\ exits' = [exits EXCEPT ![t] = Append(@, Exit(FailStatus, "__stack_chk_fail", "svc"))]
    /\ pc' = [pc EXCEPT ![t] = "ViolationReported"]
    /\ UNCHANGED <<arch, thread_id, seed, __stack_chk_guard, canary, smashed,
                   task_ret, calls>>

\* Mutant of stack_chk_fail_sys_exit: the call of __sys_exit needs a frame on
\* the smashed stack, its own check fails and the handler is entered again
\* without a report.
stack_chk_fail_sys_exit_reenters(t) ==
    /\ pc[t] = "InStackChkFail"
    /\ Log(t, "__stack_chk_fail", << >>)
    /\ UNCHANGED <<arch, thread_id, seed, __stack_chk_guard, pc, canary, smashed,
                   task_ret, exits>>

\* The body of the other build: "__sys_exit(123)".  The kernel ends the
\* thread ("never reached").
stack_chk_fail_sys_exit(t) ==
    /\ pc[t] = "InStackChkFail"
    /\ exits' = [exits EXCEPT ![t] =
                    Append(@, Exit(FailStatus, "__stack_chk_fail", "__sys_exit"))]
    /\ pc' = [pc EXCEPT ![t] = "ViolationReported"]
    /\ Log(t, "__sys_exit", <<FailStatus>>)
    /\ UNCHANGED <<arch, thread_id, seed, __stack_chk_guard, canary, smashed, task_ret>>

\* #ifdef __arm__
__stack_chk_fail_arm(t) == arch = "arm" /\ stack_chk_fail_svc(t)

\* #else
__stack_chk_fail_portable(t) == arch = "portable" /\ stack_chk_fail_sys_exit(t)

(* --------------------------- specifications --------------------------- *)

\* The image after the kernel has copied .data and zeroed .bss, with every
\* thread about to enter _start.
Init ==
    /\ arch \in Archs
    /\ thread_id \in [Threads -> ThreadIds]
    /\ seed \in [Threads -> Seeds]
    /\ __stack_chk_guard = 0
    /\ pc = [t \in Threads |-> "Uninitialized"]
    /\ canary = [t \in Threads |-> 0]
    /\ smashed = [t \in Threads |-> FALSE]
    /\ task_ret = [t \in Threads |-> Unset]
    /\ calls = [t \in Threads |-> << >>]
    /\ exits = [t \in Threads |-> << >>]

\* The same image when the kernel starts thread 1 only.
InitOne ==
    /\ arch \in Archs
    /\ thread_id \in [Threads -> ThreadIds]
    /\ seed \in [Threads -> Seeds]
    /\ \A t \in Threads \ {1} : thread_id[t] = 0 /\ seed[t] = 0
    /\ __stack_chk_guard = 0
    /\ pc = [t \in Threads |-> IF t = 1 THEN "Uninitialized" ELSE "NotStarted"]
    /\ canary = [t \in Threads |-> 0]
    /\ smashed = [t \in Threads |-> FALSE]
    /\ task_ret = [t \in Threads |-> Unset]
    /\ calls = [t \in Threads |-> << >>]
    /\ exits = [t \in Threads |-> << >>]

\* One step of thread t.
ThreadNext(t) ==
    \/ start_set_guard(t)
    \/ start_call_libc_init(t)
    \/ libc_init_return(t)
    \/ start_call_rand_set_seed(t)
    \/ rand_set_seed_return(t)
    \/ start_call_main(t)
    \/ main_return(t)
    \/ start_sys_exit(t)
    \/ smash(t)
    \/ epilogue_fail(t)
    \/ __stack_chk_fail_arm(t)
    \/ __stack_chk_fail_portable(t)

Next == \E t \in Threads : ThreadNext(t)

\* Every thread of the image bootstraps, in any interleaving.
Spec == Init /\ [][Next]_vars

\* One bootstrap alone in the image.
SpecOne == InitOne /\ [][Next]_vars

\* What every step of a thread changes: its position, or the smashed flag.
progress == <<pc, smashed>>

\* One bootstrap alone in the image, where the kernel keeps scheduling the
\* thread and every callee comes to its epilogue: a thread that can take a
\* step eventually takes one.
SpecOneFair == InitOne /\ [][Next]_vars /\ \A t \in Threads : WF_progress(ThreadNext(t))

(* ------------------------------ views --------------------------------- *)

\* The functions thread t has called so far, in order.
Called(t) == [i \in 1..Len(calls[t]) |-> calls[t][i].fn]

\* How many times thread t has taken step fn.
Count(t, fn) == Cardinality({i \in 1..Len(calls[t]) : calls[t][i].fn = fn})

\* The thread has made its terminal call.
Terminal(t) == pc[t] \in {"Exited", "ViolationReported"}

\* The steps of a bootstrap that meets no corruption, in order.
Bootstrap == <<"set_guard", "__libc_init", "__shield_rand_set_seed", "main", "__sys_exit">>

\* The steps of the violation path (the second on the portable build only).
Violation == <<"__stack_chk_fail", "__sys_exit">>

IsPrefix(s, q) == Len(s) <= Len(q) /\ \A i \in 1..Len(s) : s[i] = q[i]

\* The per-thread state of the bootstrap: a callee that has not returned
\* leaves the thread in the state it was called in.
ThreadState(t) ==
    CASE pc[t] = "NotStarted" -> "NotStarted"
      [] pc[t] = "Uninitialized" -> "Uninitialized"
      [] pc[t] \in {"GuardSet", "InLibcInit"} -> "GuardSet"
      [] pc[t] \in {"RuntimeReady", "InRandSetSeed"} -> "RuntimeReady"
      [] pc[t] = "RngSeeded" -> "RngSeeded"
      [] pc[t] \in {"InMain", "MainReturned"} -> "Running"
      [] pc[t] = "InStackChkFail" ->
            (CASE Called(t)[Len(calls[t]) - 1] = "__libc_init" -> "GuardSet"
               [] Called(t)[Len(calls[t]) - 1] = "__shield_rand_set_seed" -> "RuntimeReady"
               [] OTHER -> "Running")
      [] pc[t] = "Exited" -> "Exited"
      [] pc[t] = "ViolationReported" -> "ViolationReported"

(* ------------------------------ claims -------------------------------- *)

\* C1: in a run of _start(thread_id, s) alone in the image, the guard write
\* is the first step, before any call, it stores s, and the guard (and the
\* canary main's prologue copied from it) is s when main begins executing.
C1_GuardIsSeedBeforeMain ==
    \A t \in Threads :
        /\ Len(calls[t]) > 0 => calls[t][1] = Step("set_guard", <<seed[t]>>)
        /\ pc[t] = "InMain" =>
              /\ __stack_chk_guard = seed[t]
              /\ ~smashed[t] => canary[t] = seed[t]

\* C1 witness: main is executing under a non-zero seed.
C1_Witness ==
    \E t \in Threads :
        pc[t] = "InMain" /\ seed[t] = MaxSeed /\ __stack_chk_guard = MaxSeed

\* C2: once main has returned v, the thread issues one exit report, from
\* _start, with status v unchanged, and takes no step after it.
C2_ExitReportsMainValue ==
    \A t \in Threads :
        /\ pc[t] = "MainReturned" =>
              task_ret[t] \in {<<v>> : v \in RetVals} /\ exits[t] = << >>
        /\ pc[t] = "Exited" =>
              /\ task_ret[t] \in {<<v>> : v \in RetVals}
              /\ exits[t] = <<Exit(task_ret[t][1], "_start", "__sys_exit")>>
              /\ calls[t][Len(calls[t])] = Step("__sys_exit", task_ret[t])
              /\ ~ENABLED ThreadNext(t)

\* C2 witness: a thread has exited with a negative status.
C2_Witness ==
    \E t \in Threads :
        pc[t] = "Exited" /\ task_ret[t][1] < 0 /\ exits[t][1].status = task_ret[t][1]

\* C3: a callee whose canary differs from the guard cannot return, only call
\* __stack_chk_fail; the handler is entered at most once, reports status 123
\* through the exit syscall, and the thread takes no step after the report.
C3_ViolationReports123Once ==
    \A t \in Threads :
        /\ Count(t, "__stack_chk_fail") <= 1
        /\ (pc[t] \in InCallee /\ ~EpilogueOk(t)) =>
              /\ ENABLED epilogue_fail(t)
              /\ ~ENABLED (libc_init_return(t) \/ rand_set_seed_return(t) \/ main_return(t))
        /\ pc[t] = "InStackChkFail" =>
              Count(t, "__stack_chk_fail") = 1 /\ exits[t] = << >>
        /\ pc[t] = "ViolationReported" =>
              /\ Count(t, "__stack_chk_fail") = 1
              /\ Len(exits[t]) = 1
              /\ exits[t][1].status = 123
              /\ exits[t][1].from = "__stack_chk_fail"
              /\ ~ENABLED ThreadNext(t)

\* C3 witness: a smashed frame of main was detected and reported.
C3_Witness ==
    \E t \in Threads :
        /\ pc[t] = "ViolationReported"
        /\ smashed[t]
        /\ Called(t)[Len(calls[t]) - (IF arch = "arm" THEN 1 ELSE 2)] = "main"

\* C4: a thread makes at most one terminal call, exit report or violation
\* report; it has made one exactly when it is in Exited or ViolationReported,
\* and it never leaves those states.
C4_AtMostOneTerminalCall ==
    \A t \in Threads :
        /\ Len(exits[t]) <= 1
        /\ Len(exits[t]) = 1 <=> Terminal(t)
        /\ pc[t] = "Exited" => exits[t][1].from = "_start"
        /\ pc[t] = "ViolationReported" => exits[t][1].from = "__stack_chk_fail"
        /\ Terminal(t) => ~ENABLED ThreadNext(t)

\* C4 witness: a thread ended by a violation report on the arm build, with
\* no other report.
C4_Witness ==
    \E t \in Threads :
        /\ arch = "arm"
        /\ pc[t] = "ViolationReported"
        /\ Len(exits[t]) = 1

\* The edges of the state machine as the specification draws it.
ChainEdges ==
    { <<"Uninitialized", "GuardSet">>, <<"GuardSet", "RuntimeReady">>,
      <<"RuntimeReady", "RngSeeded">>, <<"RngSeeded", "Running">>,
      <<"Running", "Exited">>, <<"Running", "ViolationReported">> }

\* The edges a violation detected in __libc_init or __shield_rand_set_seed adds.
EarlyViolationEdges ==
    { <<"GuardSet", "ViolationReported">>, <<"RuntimeReady", "ViolationReported">> }

\* Every change of a thread's state is one of the edges E.
MovesAlong(E) ==
    \A t \in Threads :
        ThreadState(t)' # ThreadState(t) => <<ThreadState(t), ThreadState(t)'>> \in E

\* The steps thread t has taken are a bootstrap cut short, or a bootstrap cut
\* short inside a callee followed by the violation path; nothing is skipped,
\* reordered or repeated.
InOrder(t) ==
    \/ IsPrefix(Called(t), Bootstrap)
    \/ \E n \in 2..4 : \E m \in 1..2 :
          Called(t) = SubSeq(Bootstrap, 1, n) \o SubSeq(Violation, 1, m)

\* The number of bootstrap steps taken at each position of _start.
StepsAt(t) ==
    CASE pc[t] \in {"NotStarted", "Uninitialized"} -> 0
      [] pc[t] = "GuardSet" -> 1
      [] pc[t] \in {"InLibcInit", "RuntimeReady"} -> 2
      [] pc[t] \in {"InRandSetSeed", "RngSeeded"} -> 3
      [] pc[t] \in {"InMain", "MainReturned"} -> 4
      [] pc[t] = "Exited" -> 5
      [] OTHER -> Len(calls[t])

\* C5 as stated: every change of the per-thread state is an edge of
\* Uninitialized -> GuardSet -> RuntimeReady -> RngSeeded -> Running ->
\* {Exited | ViolationReported}.
C5_ChainEdgesOnly == [][MovesAlong(ChainEdges)]_vars

\* C5 amended: the steps occur in the order guard write, __libc_init,
\* __shield_rand_set_seed, main, exit report, none skipped, reordered or
\* repeated, and every change of the per-thread state is an edge of the chain
\* or leads from GuardSet or RuntimeReady to ViolationReported.
C5_OrderedWithEarlyViolation ==
    /\ [](\A t \in Threads : InOrder(t) /\ Len(calls[t]) = StepsAt(t))
    /\ [][MovesAlong(ChainEdges \cup EarlyViolationEdges)]_vars

\* C5 witness: a violation was reported out of __libc_init, before the
\* runtime was ready.
C5_Witness ==
    \E t \in Threads :
        /\ pc[t] = "ViolationReported"
        /\ Count(t, "__libc_init") = 1
        /\ Count(t, "__shield_rand_set_seed") = 0

\* C6: in a bootstrap alone in the image, once a callee has overwritten its
\* canary the thread never returns into _start: the callee's check fails,
\* task_ret is never assigned, no exit report is issued from _start, and the
\* run can end only with the single violation report of status 123.
C6_SmashEndsInViolationOnly ==
    \A t \in Threads :
        smashed[t] =>
            /\ pc[t] \in InCallee \cup {"InStackChkFail", "ViolationReported"}
            /\ pc[t] \in InCallee => ~EpilogueOk(t)
            /\ task_ret[t] = Unset
            /\ \A i \in 1..Len(exits[t]) : exits[t][i].from # "_start"
            /\ pc[t] = "ViolationReported" =>
                  /\ Len(exits[t]) = 1
                  /\ exits[t][1].status = 123
                  /\ exits[t][1].from = "__stack_chk_fail"

\* C6 witness: a smash inside main ended in the violation report on the
\* portable build.
C6_Witness ==
    \E t \in Threads :
        /\ smashed[t]
        /\ arch = "portable"
        /\ pc[t] = "ViolationReported"
        /\ Count(t, "main") = 1

\* C7: whenever a callee of thread t is executing (so that its epilogue will
\* compare its canary with the guard), the guard is t's own seed.
C7_GuardIsOwnSeed ==
    \A t \in Threads : pc[t] \in InCallee => __stack_chk_guard = seed[t]

\* C8: in a bootstrap alone in the image, the guard is zero until the guard
\* write, the guard write happens once, first, and from then on, at every
\* later position of the thread, the guard is still the seed.
C8_GuardWrittenOnce ==
    \A t \in Threads :
        /\ Count(t, "set_guard") <= 1
        /\ pc[t] = "Uninitialized" => __stack_chk_guard = 0 /\ calls[t] = << >>
        /\ pc[t] \notin {"NotStarted", "Uninitialized"} =>
              /\ Count(t, "set_guard") = 1
              /\ calls[t][1].fn = "set_guard"
              /\ __stack_chk_guard = seed[t]

\* C8 witness: the thread has exited and the guard is still its non-zero seed.
C8_Witness ==
    \E t \in Threads :
        pc[t] = "Exited" /\ seed[t] = MaxSeed /\ __stack_chk_guard = MaxSeed

\* C9: the runtime initializer receives the thread_id _start was called with.
C9_ThreadIdForwarded ==
    \A t \in Threads :
        \A i \in 1..Len(calls[t]) :
            calls[t][i].fn = "__libc_init" => calls[t][i].args = <<thread_id[t]>>

\* C10: the RNG seeder is the third step, after the guard write and after
\* __libc_init has returned, main is called only right after it, and its
\* argument is the value the guard write installed: the seed.
C10_RngSeededWithGuardValue ==
    \A t \in Threads :
        /\ \A i \in 1..Len(calls[t]) :
              calls[t][i].fn = "__shield_rand_set_seed" =>
                  /\ i = 3
                  /\ calls[t][1].fn = "set_guard"
                  /\ calls[t][2].fn = "__libc_init"
                  /\ calls[t][i].args = calls[t][1].args
                  /\ calls[t][i].args = <<seed[t]>>
        /\ \A i \in 1..Len(calls[t]) :
              calls[t][i].fn = "main" => calls[t][i - 1].fn = "__shield_rand_set_seed"

\* C10 witness: the RNG seeder is executing with a seed that differs from the
\* thread identifier.
C10_Witness ==
    \E t \in Threads :
        /\ pc[t] = "InRandSetSeed"
        /\ seed[t] = MaxSeed
        /\ thread_id[t] # seed[t]
        /\ calls[t][3].args = <<MaxSeed>>
\* C11: a started bootstrap that has not made its terminal call can always
\* take a step, and, when every callee finishes or diverts to the violation
\* handler, it eventually reaches Exited or ViolationReported.
C11_ReachesTerminalState ==
    /\ [](\A t \in Threads :
            (pc[t] # "NotStarted" /\ ~Terminal(t)) => ENABLED ThreadNext(t))
    /\ \A t \in Threads : (pc[t] = "Uninitialized") ~> Terminal(t)

\* C11 witness: a bootstrap on the portable build has come to its exit report.
C11_Witness ==
    \E t \in Threads :
        arch = "portable" /\ pc[t] = "Exited" /\ Len(calls[t]) = Len(Bootstrap)
\* C12: a bootstrap calls __libc_init, __shield_rand_set_seed and main at
\* most once each, main with no arguments; after __stack_chk_fail is entered
\* the only call is the handler's own exit call, an exit call is the last
\* call of the thread, and a thread in a terminal state takes no step.
C12_OneShot ==
    \A t \in Threads :
        /\ \A fn \in {"__libc_init", "__shield_rand_set_seed", "main"} : Count(t, fn) <= 1
        /\ \A i \in 1..Len(calls[t]) :
              /\ calls[t][i].fn = "main" => calls[t][i].args = << >>
              /\ calls[t][i].fn = "__sys_exit" => i = Len(calls[t])
              /\ calls[t][i].fn = "__stack_chk_fail" =>
                    \A j \in (i + 1)..Len(calls[t]) : calls[t][j].fn = "__sys_exit"
        /\ Terminal(t) => ~ENABLED ThreadNext(t)

\* C12 witness: a bootstrap on the arm build has exited after calling each
\* collaborator once.
C12_Witness ==
    \E t \in Threads :
        /\ arch = "arm"
        /\ pc[t] = "Exited"
        /\ Count(t, "__libc_init") = 1
        /\ Count(t, "__shield_rand_set_seed") = 1
        /\ Count(t, "main") = 1
        /\ task_ret[t] # <<0>>
\* What the kernel and the rest of the thread can observe of thread t: the
\* statuses of the EXIT syscalls it issued, and where it stands.
Observed(t) == <<[i \in 1..Len(exits[t]) |-> exits[t][i].status], pc[t]>>

\* C13: from any state in which the violation handler has been entered,
\* either variant can run, and every outcome of the supervisor-call variant
\* and of the __sys_exit variant is the same observation: one EXIT report
\* of status 123 and the thread in ViolationReported, where it takes no step.
C13_VariantsEquivalent ==
    \A t \in Threads :
        /\ pc[t] = "InStackChkFail" =>
              /\ ENABLED stack_chk_fail_svc(t)
              /\ ENABLED stack_chk_fail_sys_exit(t)
              /\ ~ENABLED (stack_chk_fail_svc(t)
                             /\ Observed(t)' # <<<<123>>, "ViolationReported">>)
              /\ ~ENABLED (stack_chk_fail_sys_exit(t)
                             /\ Observed(t)' # <<<<123>>, "ViolationReported">>)
        /\ pc[t] = "ViolationReported" =>
              Observed(t) = <<<<123>>, "ViolationReported">> /\ ~ENABLED ThreadNext(t)

\* C13 witness: the handler has been entered out of __shield_rand_set_seed.
C13_Witness ==
    \E t \in Threads :
        /\ pc[t] = "InStackChkFail"
        /\ Count(t, "__shield_rand_set_seed") = 1
        /\ Count(t, "main") = 0
\* C14: whatever the seed, the thread identifier, the guard, the canary and
\* the callee in which the mismatch was found, a thread that has entered the
\* violation handler has one possible outcome, the report of status 123 and
\* the end of the thread; any two threads that reported a violation show the
\* same observation; and no collaborator is executing or called once the
\* handler has been entered.
C14_ViolationPathDeterministic ==
    /\ \A t \in Threads :
          /\ \A i \in 1..Len(exits[t]) :
                exits[t][i].from = "__stack_chk_fail" => exits[t][i].status = SSP_EXIT_CODE
          /\ pc[t] = "InStackChkFail" =>
                ~ENABLED (ThreadNext(t)
                           /\ Observed(t)' # <<<<SSP_EXIT_CODE>>, "ViolationReported">>)
          /\ Count(t, "__stack_chk_fail") > 0 =>
                /\ pc[t] \in {"InStackChkFail", "ViolationReported"}
                /\ Called(t)[Len(calls[t])] \in {"__stack_chk_fail", "__sys_exit"}
    /\ \A t, u \in Threads :
          (pc[t] = "ViolationReported" /\ pc[u] = "ViolationReported") =>
              Observed(t) = Observed(u)

\* C14 witness: a violation found in __libc_init was reported under the
\* largest seed and thread identifier.
C14_Witness ==
    \E t \in Threads :
        /\ pc[t] = "ViolationReported"
        /\ seed[t] = MaxSeed
        /\ thread_id[t] = MaxThreadId
        /\ Count(t, "__shield_rand_set_seed") = 0
        /\ exits[t][1].status = SSP_EXIT_CODE
\* C15: as long as no callee of any thread has overwritten its canary, no
\* thread enters the violation handler, and a thread that has ended has
\* ended with the exit report of its own main's return value.
C15_NoSpuriousViolation ==
    (\A u \in Threads : ~smashed[u]) =>
        \A t \in Threads :
            /\ Count(t, "__stack_chk_fail") = 0
            /\ pc[t] \notin {"InStackChkFail", "ViolationReported"}
            /\ Terminal(t) => exits[t] = <<Exit(task_ret[t][1], "_start", "__sys_exit")>>
\* C16: at no position of _start's own frame can an epilogue check fail; a
\* thread that entered the violation handler had first stored its seed in
\* the guard, entered it out of __libc_init, __shield_rand_set_seed or main,
\* and never got a value back from main; a thread in Uninitialized has
\* reported nothing.
C16_ViolationOnlyFromCallee ==
    \A t \in Threads :
        /\ pc[t] \in {"NotStarted", "Uninitialized", "GuardSet", "RuntimeReady",
                      "RngSeeded", "MainReturned", "Exited"} =>
              ~ENABLED epilogue_fail(t)
        /\ pc[t] = "Uninitialized" => exits[t] = << >>
        /\ \A i \in 1..Len(calls[t]) :
              calls[t][i].fn = "__stack_chk_fail" =>
                  /\ calls[t][1] = Step("set_guard", <<seed[t]>>)
                  /\ i >= 3
                  /\ calls[t][i - 1].fn \in {"__libc_init", "__shield_rand_set_seed", "main"}
                  /\ task_ret[t] = Unset

\* C16 witness: on the arm build a violation was reported out of main, with
\* the guard holding the thread's non-zero seed.
C16_Witness ==
    \E t \in Threads :
        /\ arch = "arm"
        /\ pc[t] = "ViolationReported"
        /\ Count(t, "main") = 1
        /\ seed[t] = MaxSeed
        /\ __stack_chk_guard = MaxSeed

=============================================================================
